---- MODULE Spec2Model ----
(***************************************************************************)
(* The streaming search endpoint of code/api.py: run_search_stream, its    *)
(* worker run_search_in_thread, and the response generator                 *)
(* result_streamer, connected by one asyncio.Queue per request.            *)
(***************************************************************************)
EXTENDS Naturals, Sequences, FiniteSets, TLC

(* ------------------------------ bounds -------------------------------- *)

\* number of /search-stream requests the concurrent specification serves
NumReq == 2
\* progress reports one search call issues at most (single-request runs)
MaxSteps == 2
\* progress reports one search call issues at most (concurrent runs)
ConcSteps == 1

Req == 1 .. NumReq
\* the request the single-request specification serves
Solo == {1}
\* execution contexts: 0 is the event loop's, r the worker thread of request r
LoopCtx == 0
Ctx == Req \cup {LoopCtx}

(* --------------------------- Python values ---------------------------- *)

\* a str, None, or a list of atoms; inside a list the atom "null" is None
Str(s) == [t |-> "str", v |-> <<s>>]
NoneVal == [t |-> "none", v |-> <<>>]
List(xs) == [t |-> "list", v |-> xs]

\* the lambda's default argument text=None
NoText == "null"

\* hook body: ["STEP", [message, text]]
StepEvent(message, text) == <<Str("STEP"), List(<<message, text>>)>>
\* ("RESULT", [final_answer, references, output_excel, search_results, files])
ResultEvent(five) == <<Str("RESULT"), List(five)>>
\* ("ERROR", str(e), None)
ErrorEvent(msg) == <<Str("ERROR"), Str(msg), NoneVal>>
\* ("END", None)
EndEvent == <<Str("END"), NoneVal>>

(* ------------------------------- JSON --------------------------------- *)

\* json.dumps of one element: str -> string, None -> null, list -> array
JsonOf(pv) ==
  [j |-> CASE pv.t = "str" -> "string"
           [] pv.t = "none" -> "null"
           [] pv.t = "list" -> "array",
   v |-> pv.v]

\* json.dumps(step): a list or a tuple is written as a JSON array of its
\* elements; an object would carry its keys in `keys`
json_dumps_Object(step) ==
  [top |-> "object", keys |-> <<"kind", "payload">>,
   elems |-> [i \in 1 .. Len(step) |-> JsonOf(step[i])]]
json_dumps(step) ==
  [top |-> "array", keys |-> <<>>,
   elems |-> [i \in 1 .. Len(step) |-> JsonOf(step[i])]]

(* ---------------------------- request body ---------------------------- *)

\* the fields of SearchRequest, all required
SearchRequest ==
  {"query", "top", "approx_tag_limit", "conversation_history", "user_id",
   "computation_approach", "computation_decision", "vision_support",
   "include_master_py", "vector_type", "index_name", "full_search_output",
   "count", "token_limit", "temperature", "verbose"}

FullBody == [json |-> TRUE, fields |-> SearchRequest, typed |-> TRUE]
Bodies ==
  {FullBody,
   [FullBody EXCEPT !.fields = SearchRequest \ {"query"}],
   [FullBody EXCEPT !.typed = FALSE],
   [json |-> FALSE, fields |-> {}, typed |-> FALSE]}
NoBody == [json |-> FALSE, fields |-> {"-"}, typed |-> FALSE]

\* SearchRequest(**body) raises pydantic's ValidationError
ValidationError(b) == ~(SearchRequest \subseteq b.fields /\ b.typed)

\* the try block fails before the queue is made: request.json() or the model
HandlerRejects_NoCheck(b) == FALSE
HandlerRejects(b) == ~b.json \/ ValidationError(b)

(* --------------------------- search inputs ---------------------------- *)

Reports == {<<"fetching", NoText>>, <<"ranking", "3 candidates">>}
FiveTuple == <<"answer text", "refs", "/tmp/out.xlsx", "results", "files">>
Failures == {"boom"}

\* the reports and failures of the concurrent runs name their request
ConcReports(r) == {<<ToString(r), NoText>>}

NoExc == [kind |-> "none", msg |-> ""]

(* ------------------------------- state -------------------------------- *)

VARIABLES
  body,      \* r -> the body received, NoBody before the request arrives
  status,    \* r -> HTTP status the handler committed, 0 before it ran
  queueMade, \* r -> steps_queue was created
  queue,     \* r -> items of the asyncio.Queue
  getter,    \* r -> the future get() waits on: none, pending, scheduled, stranded
  wpc,       \* r -> position of run_search_in_thread
  exc,       \* r -> how the search call ended: [kind, msg], kind none,
             \*      Exception or BaseException, msg is str(e)
  issued,    \* r -> progress reports the search call made, in order
  pushed,    \* q -> every put_nowait on queue q: [by, ev], in order
  hookVar,   \* context -> value of log_hook_var there (0: unset, q: hook on queue q)
  token,     \* r -> value log_hook_var.set returned for reset
  raisedTo,  \* r -> exception that left the worker thread's target
  spc,       \* r -> position of result_streamer
  pulled,    \* r -> items result_streamer got from the queue, in order
  lines,     \* r -> lines written to the response
  threads,   \* r -> number of worker threads the handler started
  uiHook,    \* utils.logc.log_ui_func_hook, process-wide: 0 unset, r: appends
             \*      to the steps list of /search request r
  steps,     \* r -> the steps list made for /search request r
  lpc,       \* r -> position of /search request r
  lissued,   \* r -> progress reports the search call of /search request r made
  lresp      \* r -> the steps /search request r returned

\* the state of the /search requests
legacyVars == <<uiHook, steps, lpc, lissued, lresp>>

\* the state of the /search-stream requests
streamVars ==
  <<body, status, queueMade, queue, getter, wpc, exc, issued, pushed, hookVar,
    token, raisedTo, spc, pulled, lines, threads>>

vars == <<streamVars, legacyVars>>

Init ==
  /\ body = [r \in Req |-> NoBody]
  /\ status = [r \in Req |-> 0]
  /\ queueMade = [r \in Req |-> FALSE]
  /\ queue = [r \in Req |-> <<>>]
  /\ getter = [r \in Req |-> "none"]
  /\ wpc = [r \in Req |-> "none"]
  /\ exc = [r \in Req |-> NoExc]
  /\ issued = [r \in Req |-> <<>>]
  /\ pushed = [r \in Req |-> <<>>]
  /\ hookVar = [c \in Ctx |-> 0]
  /\ token = [r \in Req |-> 0]
  /\ raisedTo = [r \in Req |-> "none"]
  /\ spc = [r \in Req |-> "none"]
  /\ pulled = [r \in Req |-> <<>>]
  /\ lines = [r \in Req |-> <<>>]
  /\ threads = [r \in Req |-> 0]
  /\ uiHook = 0
  /\ steps = [r \in Req |-> <<>>]
  /\ lpc = [r \in Req |-> "none"]
  /\ lissued = [r \in Req |-> <<>>]
  /\ lresp = [r \in Req |-> <<>>]

(* ------------------------------ handler ------------------------------- *)

\* POST /search-stream
run_search_stream_Inline(r, b) ==
  /\ status[r] = 0
  /\ body' = [body EXCEPT ![r] = b]
  /\ IF HandlerRejects(b)
       THEN /\ status' = [status EXCEPT ![r] = 500]
            /\ UNCHANGED <<queueMade, wpc, spc, queue, pushed>>
       ELSE \* run_search_in_thread(payload, steps_queue) called in place
            /\ status' = [status EXCEPT ![r] = 200]
            /\ queueMade' = [queueMade EXCEPT ![r] = TRUE]
            /\ queue' = [queue EXCEPT ![r] = <<ResultEvent(FiveTuple), EndEvent>>]
            /\ pushed' = [pushed EXCEPT ![r] =
                            <<[by |-> r, ev |-> ResultEvent(FiveTuple)],
                              [by |-> r, ev |-> EndEvent]>>]
            /\ wpc' = [wpc EXCEPT ![r] = "done"]
            /\ spc' = [spc EXCEPT ![r] = "get"]
  /\ UNCHANGED <<getter, exc, issued, hookVar, token, raisedTo, pulled, lines,
                 threads, legacyVars>>
run_search_stream(r, b) ==
  /\ status[r] = 0
  /\ body' = [body EXCEPT ![r] = b]
  /\ IF HandlerRejects(b)
       THEN \* except Exception: raise HTTPException(status_code=500)
            /\ status' = [status EXCEPT ![r] = 500]
            /\ UNCHANGED <<queueMade, wpc, spc, threads>>
       ELSE \* asyncio.Queue(), search_thread.start(), StreamingResponse
            /\ status' = [status EXCEPT ![r] = 200]
            /\ queueMade' = [queueMade EXCEPT ![r] = TRUE]
            /\ threads' = [threads EXCEPT ![r] = @ + 1]
            /\ wpc' = [wpc EXCEPT ![r] = "start"]
            /\ spc' = [spc EXCEPT ![r] = "get"]
  /\ UNCHANGED <<queue, getter, exc, issued, pushed, hookVar, token, raisedTo,
                 pulled, lines>>
  /\ UNCHANGED legacyVars

(* ------------------------------- queue -------------------------------- *)

\* asyncio.Queue._put: the deque's append
QueuePut_Front(items, item) == <<item>> \o items
QueuePut(items, item) == Append(items, item)

\* Whether the event loop notices a future completed from the worker thread:
\* set_result calls loop.call_soon from a foreign thread, which queues the
\* wake-up without interrupting the loop's select; the loop runs it only if
\* it is iterating anyway.
Wakes(q) == IF getter[q] = "pending" THEN BOOLEAN ELSE {FALSE}

\* request_steps_queue.put_nowait(item), called on the worker thread `by`:
\* append, then _wakeup_next(self._getters)
put_nowait(q, by, item, wake) ==
  /\ queue' = [queue EXCEPT ![q] = QueuePut(@, item)]
  /\ getter' = [getter EXCEPT ![q] =
                  IF @ = "pending"
                    THEN IF wake THEN "scheduled" ELSE "stranded"
                    ELSE @]
  /\ pushed' = [pushed EXCEPT ![q] = Append(@, [by |-> by, ev |-> item])]

(* -------------------------------- hook -------------------------------- *)

\* log_hook_var.set(log_hook): binds the variable in the calling context
HookSet_Global(hv, c, h) == [x \in Ctx |-> h]
HookSet(hv, c, h) == [hv EXCEPT ![c] = h]

\* log_hook_var.reset(token)
HookReset_Keep(hv, c, tok) == hv
HookReset(hv, c, tok) == [hv EXCEPT ![c] = tok]

\* the hook a progress report of the search call in context c goes through
CurrentHook(c) == hookVar[c]

(* ------------------------------- worker ------------------------------- *)

\* the thread starts: builds log_hook on its own queue, installs it, calls search
WorkerBegin(r) ==
  /\ wpc[r] = "start"
  /\ token' = [token EXCEPT ![r] = hookVar[r]]
  /\ hookVar' = HookSet(hookVar, r, r)
  /\ wpc' = [wpc EXCEPT ![r] = "search"]
  /\ UNCHANGED <<body, status, queueMade, queue, getter, exc, issued, pushed,
                 raisedTo, spc, pulled, lines>>
  /\ UNCHANGED <<threads, legacyVars>>

\* search reports progress: the installed hook puts a STEP on its queue
Report(r, rep, limit) ==
  /\ wpc[r] = "search"
  /\ Len(issued[r]) < limit
  /\ issued' = [issued EXCEPT ![r] = Append(@, rep)]
  /\ IF CurrentHook(r) = 0
       THEN UNCHANGED <<queue, getter, pushed>>
       ELSE \E wake \in Wakes(CurrentHook(r)) :
              put_nowait(CurrentHook(r), r, StepEvent(rep[1], rep[2]), wake)
  /\ UNCHANGED <<body, status, queueMade, wpc, exc, hookVar, token, raisedTo,
                 spc, pulled, lines>>
  /\ UNCHANGED <<threads, legacyVars>>

\* search returns its five values: put RESULT
SearchReturns(r) ==
  /\ wpc[r] = "search"
  /\ \E wake \in Wakes(r) : put_nowait(r, r, ResultEvent(FiveTuple), wake)
  /\ wpc' = [wpc EXCEPT ![r] = "finally"]
  /\ UNCHANGED <<body, status, queueMade, exc, issued, hookVar, token,
                 raisedTo, spc, pulled, lines>>
  /\ UNCHANGED <<threads, legacyVars>>

\* search raises an Exception: put ERROR, then raise HTTPException
SearchRaises(r, msg) ==
  /\ wpc[r] = "search"
  /\ \E wake \in Wakes(r) : put_nowait(r, r, ErrorEvent(msg), wake)
  /\ exc' = [exc EXCEPT ![r] = [kind |-> "Exception", msg |-> msg]]
  /\ wpc' = [wpc EXCEPT ![r] = "finally"]
  /\ UNCHANGED <<body, status, queueMade, issued, hookVar, token, raisedTo,
                 spc, pulled, lines>>
  /\ UNCHANGED <<threads, legacyVars>>

\* search ends with a BaseException that `except Exception` does not catch
\* (SystemExit, asyncio.CancelledError, ...): only the finally block runs
SearchAborts(r, msg) ==
  /\ wpc[r] = "search"
  /\ exc' = [exc EXCEPT ![r] = [kind |-> "BaseException", msg |-> msg]]
  /\ wpc' = [wpc EXCEPT ![r] = "finally"]
  /\ UNCHANGED <<body, status, queueMade, queue, getter, issued, pushed,
                 hookVar, token, raisedTo, spc, pulled, lines>>
  /\ UNCHANGED <<threads, legacyVars>>

\* finally: put END, reset the hook; a pending exception leaves the thread
WorkerFinally(r) ==
  /\ wpc[r] = "finally"
  /\ \E wake \in Wakes(r) : put_nowait(r, r, EndEvent, wake)
  /\ hookVar' = HookReset(hookVar, r, token[r])
  /\ raisedTo' = [raisedTo EXCEPT ![r] =
                    CASE exc[r].kind = "Exception" -> "HTTPException"
                      [] exc[r].kind = "BaseException" -> "BaseException"
                      [] OTHER -> "none"]
  /\ wpc' = [wpc EXCEPT ![r] = "done"]
  /\ UNCHANGED <<body, status, queueMade, exc, issued, token, spc, pulled,
                 lines>>
  /\ UNCHANGED <<threads, legacyVars>>

(* ------------------------------ streamer ------------------------------ *)

\* `kind, content = step` raises ValueError unless step has two elements
Unpacks(step) == Len(step) = 2

\* the loop body of result_streamer for the item `step` that get() returned
Deliver(r, step) ==
  /\ pulled' = [pulled EXCEPT ![r] = Append(@, step)]
  /\ IF ~Unpacks(step)
       THEN \* ValueError leaves the generator: the response is aborted
            /\ spc' = [spc EXCEPT ![r] = "crashed"]
            /\ UNCHANGED lines
       ELSE IF step[1] = Str("END")
         THEN \* break: the body ends, the response closes
              /\ spc' = [spc EXCEPT ![r] = "closed"]
              /\ UNCHANGED lines
         ELSE \* yield json.dumps(step) + "\n"
              /\ lines' = [lines EXCEPT ![r] = Append(@, json_dumps(step))]
              /\ spc' = [spc EXCEPT ![r] = "get"]

\* await request_steps_queue.get(): `while self.empty()` is false, so
\* get_nowait() takes the head; or it is true, and a getter is made next
StreamerGet(r) ==
  /\ spc[r] = "get"
  /\ IF queue[r] # <<>>
       THEN /\ queue' = [queue EXCEPT ![r] = Tail(@)]
            /\ Deliver(r, Head(queue[r]))
       ELSE /\ spc' = [spc EXCEPT ![r] = "register"]
            /\ UNCHANGED <<queue, pulled, lines>>
  /\ UNCHANGED <<body, status, queueMade, getter, wpc, exc, issued, pushed,
                 hookVar, token, raisedTo>>
  /\ UNCHANGED <<threads, legacyVars>>

\* get(): self._getters.append(getter); await getter. The worker thread may
\* have run put_nowait since empty() was evaluated.
StreamerRegister(r) ==
  /\ spc[r] = "register"
  /\ getter' = [getter EXCEPT ![r] = "pending"]
  /\ spc' = [spc EXCEPT ![r] = "wait"]
  /\ UNCHANGED <<body, status, queueMade, queue, wpc, exc, issued, pushed,
                 hookVar, token, raisedTo, pulled, lines>>
  /\ UNCHANGED <<threads, legacyVars>>

\* the event loop runs the getter's wake-up: get() loops to `while self.empty()`
StreamerResume(r) ==
  /\ spc[r] = "wait"
  /\ getter[r] = "scheduled"
  /\ getter' = [getter EXCEPT ![r] = "none"]
  /\ spc' = [spc EXCEPT ![r] = "get"]
  /\ UNCHANGED <<body, status, queueMade, queue, wpc, exc, issued, pushed,
                 hookVar, token, raisedTo, pulled, lines>>
  /\ UNCHANGED <<threads, legacyVars>>

\* anything else that makes the event loop iterate (socket I/O, a timer):
\* the wake-ups queued from worker threads are run with it
OtherLoopActivity ==
  /\ \E r \in Req : getter[r] = "stranded"
  /\ getter' = [r \in Req |-> IF getter[r] = "stranded" THEN "scheduled"
                                                       ELSE getter[r]]
  /\ UNCHANGED <<body, status, queueMade, queue, wpc, exc, issued, pushed,
                 hookVar, token, raisedTo, spc, pulled, lines>>
  /\ UNCHANGED <<threads, legacyVars>>

\* one iteration of result_streamer with get() taken as a single step,
\* enabled when an item is there
StreamerPull(r) ==
  /\ spc[r] = "get"
  /\ queue[r] # <<>>
  /\ queue' = [queue EXCEPT ![r] = Tail(@)]
  /\ Deliver(r, Head(queue[r]))
  /\ UNCHANGED <<body, status, queueMade, getter, wpc, exc, issued, pushed,
                 hookVar, token, raisedTo>>
  /\ UNCHANGED <<threads, legacyVars>>

(* --------------------------- specifications --------------------------- *)

\* one request, with get() and put_nowait interleaved at their real grain
Next ==
  \/ \E r \in Solo, b \in Bodies : run_search_stream(r, b)
  \/ \E r \in Solo : WorkerBegin(r)
  \/ \E r \in Solo, rep \in Reports : Report(r, rep, MaxSteps)
  \/ \E r \in Solo : SearchReturns(r)
  \/ \E r \in Solo, msg \in Failures : SearchRaises(r, msg)
  \/ \E r \in Solo, msg \in Failures : SearchAborts(r, msg)
  \/ \E r \in Solo : WorkerFinally(r)
  \/ \E r \in Solo : StreamerGet(r)
  \/ \E r \in Solo : StreamerRegister(r)
  \/ \E r \in Solo : StreamerResume(r)
  \/ OtherLoopActivity

Spec == Init /\ [][Next]_vars

\* The worker is a thread the operating system runs; the streamer is a task
\* the event loop runs once it is ready. Nothing obliges other loop activity.
Fairness ==
  /\ \A r \in Solo : WF_vars(WorkerBegin(r))
  /\ \A r \in Solo : WF_vars(SearchReturns(r) \/ (\E m \in Failures : SearchRaises(r, m)))
  /\ \A r \in Solo : WF_vars(WorkerFinally(r))
  /\ \A r \in Solo : WF_vars(StreamerGet(r))
  /\ \A r \in Solo : WF_vars(StreamerRegister(r))
  /\ \A r \in Solo : WF_vars(StreamerResume(r))

FairSpec == Init /\ [][Next]_vars /\ Fairness

\* all requests in flight together, get() as one step
ConcNext ==
  \/ \E r \in Req : run_search_stream(r, FullBody)
  \/ \E r \in Req : WorkerBegin(r)
  \/ \E r \in Req : \E rep \in ConcReports(r) : Report(r, rep, ConcSteps)
  \/ \E r \in Req : SearchReturns(r)
  \/ \E r \in Req : SearchRaises(r, ToString(r))
  \/ \E r \in Req : SearchAborts(r, ToString(r))
  \/ \E r \in Req : WorkerFinally(r)
  \/ \E r \in Req : StreamerPull(r)

ConcSpec == Init /\ [][ConcNext]_vars

(* ------------------------------ /search ------------------------------- *)

\* the hook a progress report of a /search request's search call goes
\* through: the process-wide utils.logc.log_ui_func_hook
LegacyHook == uiHook

\* Depends(modify_log_ui_func_hook): a fresh steps list, and the process-wide
\* hook replaced by a lambda appending to it
modify_log_ui_func_hook(r) ==
  /\ lpc[r] = "none"
  /\ steps' = [steps EXCEPT ![r] = <<>>]
  /\ uiHook' = r
  /\ lpc' = [lpc EXCEPT ![r] = "search"]
  /\ UNCHANGED <<lissued, lresp, streamVars>>

\* the search call of run_search reports progress: the hook in place appends
\* [message, text] to the list it was built on
LegacyReport(r, rep, limit) ==
  /\ lpc[r] = "search"
  /\ Len(lissued[r]) < limit
  /\ lissued' = [lissued EXCEPT ![r] = Append(@, rep)]
  /\ IF LegacyHook = 0
       THEN UNCHANGED steps
       ELSE steps' = [steps EXCEPT ![LegacyHook] = Append(@, rep)]
  /\ UNCHANGED <<uiHook, lpc, lresp, streamVars>>

\* run_search: search returns, the five values and steps are the response
run_search(r) ==
  /\ lpc[r] = "search"
  /\ lresp' = [lresp EXCEPT ![r] = steps[r]]
  /\ lpc' = [lpc EXCEPT ![r] = "done"]
  /\ UNCHANGED <<uiHook, steps, lissued, streamVars>>

\* run_search: search raises, the response is HTTPException(500)
run_search_fails(r) ==
  /\ lpc[r] = "search"
  /\ lpc' = [lpc EXCEPT ![r] = "failed"]
  /\ UNCHANGED <<uiHook, steps, lissued, lresp, streamVars>>

\* /search requests in flight together, each on a thread of the pool that
\* runs synchronous endpoints and dependencies
LegacyNext ==
  \/ \E r \in Req : modify_log_ui_func_hook(r)
  \/ \E r \in Req : \E rep \in ConcReports(r) : LegacyReport(r, rep, MaxSteps)
  \/ \E r \in Req : run_search(r)
  \/ \E r \in Req : run_search_fails(r)

LegacySpec == Init /\ [][LegacyNext]_vars

(* ------------------------- reading the stream ------------------------- *)

\* the response of request r is over: closed by END, or aborted by a failure
Ended(r) == spc[r] \in {"closed", "crashed"}

\* the kind a client reads from a line, and the kind of a queued event
IsKind(l, k) == Len(l.elems) >= 1 /\ l.elems[1] = [j |-> "string", v |-> <<k>>]
EvKind(ev) == ev[1].v[1]

\* the line that carries the progress report rep
StepLineOf(rep) ==
  [top |-> "array", keys |-> <<>>,
   elems |-> <<[j |-> "string", v |-> <<"STEP">>],
               [j |-> "array", v |-> <<rep[1], rep[2]>>]>>]

\* line l carries the failure message msg as its payload
CarriesMessage(l, msg) ==
  Len(l.elems) = 2 /\ l.elems[2] = [j |-> "string", v |-> <<msg>>]

\* the positions of the RESULT and ERROR lines of a response
FinalLines(ls) == {i \in 1 .. Len(ls) : IsKind(ls[i], "RESULT") \/ IsKind(ls[i], "ERROR")}

(* ------------------------------- claims ------------------------------- *)

\* C1: when the search call raises after N progress reports, the finished
\* response is exactly the N STEP lines in order, then one ERROR line with the
\* failure message, and the stream closes normally.
C1_StepsThenErrorLine ==
  \A r \in Req :
    (exc[r].kind = "Exception" /\ Ended(r)) =>
      /\ spc[r] = "closed"
      /\ Len(lines[r]) = Len(issued[r]) + 1
      /\ \A i \in 1 .. Len(issued[r]) : lines[r][i] = StepLineOf(issued[r][i])
      /\ IsKind(lines[r][Len(lines[r])], "ERROR")
      /\ CarriesMessage(lines[r][Len(lines[r])], exc[r].msg)

\* C2: for a valid body, whether the search call returns or raises, the
\* finished response holds exactly one RESULT or ERROR line, and it is the last.
C2_OneFinalLineLast ==
  \A r \in Req :
    (status[r] = 200 /\ exc[r].kind # "BaseException" /\ Ended(r)) =>
      /\ Cardinality(FinalLines(lines[r])) = 1
      /\ FinalLines(lines[r]) = {Len(lines[r])}

\* C3: on every exit path the worker has enqueued STEP events, then exactly
\* one RESULT or ERROR, then END as the last event, and nothing after END.
C3_WorkerEventOrder ==
  \A r \in Req :
    LET evs == pushed[r]
        n == Len(evs)
    IN /\ \A i \in 1 .. n : EvKind(evs[i].ev) = "END" => i = n
       /\ wpc[r] = "done" =>
            /\ n >= 2
            /\ EvKind(evs[n].ev) = "END"
            /\ EvKind(evs[n - 1].ev) \in {"RESULT", "ERROR"}
            /\ \A i \in 1 .. n - 2 : EvKind(evs[i].ev) = "STEP"

\* C4: the lines of a response start with the STEP lines of the worker's
\* progress reports, in the order issued, none lost, repeated or reordered;
\* a RESULT or ERROR line comes only after all of them.
C4_StepsFifo ==
  \A r \in Req :
    /\ \A i \in 1 .. Len(lines[r]) :
         IF i <= Len(issued[r])
           THEN lines[r][i] = StepLineOf(issued[r][i])
           ELSE /\ i = Len(issued[r]) + 1
                /\ wpc[r] \in {"finally", "done"}
                /\ i \in FinalLines(lines[r])
    /\ Ended(r) => Len(lines[r]) >= Len(issued[r])

\* a response that closed after two different reports and the result
C4_Witness ==
  \E r \in Req :
    /\ spc[r] = "closed"
    /\ Len(issued[r]) = 2
    /\ issued[r][1] # issued[r][2]
    /\ Len(lines[r]) = 3

\* C5: with several requests in flight, every event on a request's queue was
\* put there by that request's own worker, a streamer pulls only what was put
\* on its own queue, and every STEP line of a response carries a report of
\* that request's own search call.
C5_NoCrossDelivery ==
  \A q \in Req :
    /\ \A i \in 1 .. Len(pushed[q]) : pushed[q][i].by = q
    /\ Len(pulled[q]) <= Len(pushed[q])
    /\ \A i \in 1 .. Len(pulled[q]) : pulled[q][i] = pushed[q][i].ev
    /\ \A i \in 1 .. Len(lines[q]) :
         IsKind(lines[q][i], "STEP") =>
           \E j \in 1 .. Len(issued[q]) : lines[q][i] = StepLineOf(issued[q][j])

\* two workers inside search at once, each having reported, both responses
\* already carrying a line
C5_Witness ==
  \E a \in Req, b \in Req :
    /\ a # b
    /\ wpc[a] = "search" /\ wpc[b] = "search"
    /\ lines[a] # <<>> /\ lines[b] # <<>>

\* C6: a body that is JSON but fails the SearchRequest schema is answered
\* with status 422, not with a stream and not with a 5xx status.
C6_Rejected422 ==
  \A r \in Req :
    (status[r] # 0 /\ body[r].json /\ ValidationError(body[r])) =>
      status[r] = 422 /\ spc[r] = "none"

\* C7: a request whose body fails validation never has a queue, a worker
\* thread or a search call; a queue and a worker exist only for a body that
\* validated.
C7_NoWorkerForRejected ==
  \A r \in Req :
    /\ (status[r] # 0 /\ ValidationError(body[r])) =>
         /\ ~queueMade[r]
         /\ wpc[r] = "none"
         /\ spc[r] = "none"
         /\ issued[r] = <<>> /\ pushed[r] = <<>>
    /\ (queueMade[r] \/ wpc[r] # "none") =>
         body[r].json /\ ~ValidationError(body[r])

\* a request without the query field was answered
C7_Witness ==
  \E r \in Req :
    /\ status[r] # 0
    /\ body[r].json
    /\ "query" \notin body[r].fields

\* C8: once the worker has pushed END and finished, the response ends, with
\* no help from other activity on the event loop.
C8_PushedEndStreamEnds ==
  \A r \in Req : (wpc[r] = "done") ~> Ended(r)

C10_OneLinePerEvent ==
  \A r \in Req :
    LET p == pulled[r] IN
      /\ \A i \in 1 .. Len(p) :
           EvKind(p[i]) = "END" => (i = Len(p) /\ spc[r] = "closed")
      /\ \A i \in 1 .. Len(lines[r]) : ~IsKind(lines[r][i], "END")
      /\ Len(lines[r]) = Cardinality({i \in 1 .. Len(p) : EvKind(p[i]) # "END"})


\* C11: when the search call of a streaming request fails, the worker keeps
\* the failure to itself: it pushes the ERROR event and finishes, no exception
\* leaves the worker, and the committed status is the one of a successful
\* request.
C11_FailureStaysInBand ==
  \A r \in Req :
    (exc[r].kind = "Exception" /\ wpc[r] = "done") =>
      /\ raisedTo[r] = "none"
      /\ status[r] = 200
      /\ \E i \in 1 .. Len(pushed[r]) : pushed[r][i].ev = ErrorEvent(exc[r].msg)


\* C12: a /search request that returned carries in its steps exactly the
\* progress reports of its own search call, in the order issued, also when
\* other /search requests run at the same time.
C12_OwnStepsReturned ==
  \A r \in Req : lpc[r] = "done" => lresp[r] = lissued[r]


\* C13: the hook of a streaming worker is bound in that worker's context
\* alone, from its install until END is enqueued: the event loop's context,
\* the other workers' contexts and the process-wide hook never see it, and
\* once the worker is done, on any exit path, its context holds again the
\* value it had before the install, with END enqueued.
C13_HookScopedToWorker ==
  /\ hookVar[LoopCtx] = 0
  /\ uiHook = 0
  /\ \A r \in Req :
       /\ hookVar[r] \in {0, r}
       /\ wpc[r] \in {"none", "start"} => hookVar[r] = 0
       /\ wpc[r] \in {"search", "finally"} => hookVar[r] = r
       /\ hookVar[r] = r =>
            \A i \in 1 .. Len(pushed[r]) : EvKind(pushed[r][i].ev) # "END"
       /\ wpc[r] = "done" =>
            /\ hookVar[r] = token[r]
            /\ token[r] = 0
            /\ pushed[r] # <<>>
            /\ EvKind(pushed[r][Len(pushed[r])].ev) = "END"

\* a worker that failed and released its hook while another worker, inside
\* search, holds its own
C13_Witness ==
  \E a \in Req, b \in Req :
    /\ a # b
    /\ wpc[a] = "done" /\ exc[a].kind = "Exception" /\ hookVar[a] = 0
    /\ wpc[b] = "search" /\ hookVar[b] = b /\ issued[b] # <<>>


\* C14: a valid streaming request has exactly one worker thread, a rejected
\* one none; the handler returns the streaming response with the worker
\* started and nothing pushed yet, so its return waits for no RESULT, ERROR
\* or END.
C14_ReturnsWithoutWaiting ==
  /\ [](\A r \in Req : threads[r] = (IF status[r] = 200 THEN 1 ELSE 0))
  /\ [][\A r \in Req :
          (status[r] = 0 /\ status'[r] = 200) =>
            /\ wpc'[r] = "start"
            /\ spc'[r] = "get"
            /\ pushed'[r] = <<>>]_vars

\* a STEP line already written while the worker is still inside search
C14_Witness ==
  \E r \in Req :
    /\ wpc[r] = "search"
    /\ threads[r] = 1
    /\ lines[r] # <<>>
    /\ IsKind(lines[r][1], "STEP")

====
